---- MODULE Spec2Model ----
(***************************************************************************)
(* The Ui class of the image tool (src/src/ui.ts): the DOM skeleton it     *)
(* builds, the handlers the host calls, and the readiness listeners that   *)
(* fillImage registers on the media elements it creates.                   *)
(***************************************************************************)
EXTENDS Integers, Sequences, FiniteSets, TLC

\* ------------------------------------------------------------------ bounds

\* How many media elements (fillImage calls) one behaviour may create.
MaxElems == 2

\* ------------------------------------------------------------- constants

\* enum UiState, in declaration order (the order `for ... in UiState` visits).
UiState == <<"empty", "uploading", "filled">>

UiStateEmpty == UiState[1]

UiStateUploading == UiState[2]

UiStateFilled == UiState[3]

UiStateValues == {UiState[i] : i \in 1..Len(UiState)}

\* get CSS(): the class names the widget uses.
CSS ==
  [baseClass |-> "cdx-block",
   wrapper |-> "image-tool",
   imageContainer |-> "image-tool__image",
   imagePreloader |-> "image-tool__image-preloader",
   imageEl |-> "image-tool__image-picture",
   caption |-> "image-tool__caption"]

\* `${this.CSS.wrapper}--${name}`: the wrapper modifier of a tune or a state.
Modifier(name) == CSS.wrapper \o "--" \o name

\* nodes.imageEl: undefined
Undefined == 0

\* The preloader node, the first child of the image container.
PreloaderNode == -1

\* ---------------------------------------------------------------- inputs

\* URLs handed to fillImage, as character sequences.
Urls ==
  {<<"a", ".", "p", "n", "g">>,
   <<"b", ".", "m", "p", "4">>,
   <<"c", "m", "p", "4">>}

\* toolData handed to render: file absent, file an empty mapping, file {url}.
ToolDatas ==
  {[kind |-> "absent", fileDefined |-> FALSE, fileKeys |-> {}, url |-> <<>>],
   [kind |-> "empty", fileDefined |-> TRUE, fileKeys |-> {}, url |-> <<>>]}
  \cup {[kind |-> "file", fileDefined |-> TRUE, fileKeys |-> {"url"}, url |-> u] : u \in Urls}

\* Tune names handed to applyTune: a tune of the tool, and a name that is
\* also a UiState value (tuneName is any string).
TuneNames == {"withBorder", "filled"}

\* Caption texts handed to fillCaption.
CaptionTexts == {"", "<b>cap</b>"}

\* ----------------------------------------------------------------- state

VARIABLES
  wrapper,        \* nodes.wrapper.classList, as a set of class names
  imageContainer, \* children of nodes.imageContainer, in order
  fileButton,     \* nodes.fileButton.style: display, pointerEvents
  imageEl,        \* nodes.imageEl: Undefined or the index of an element
  imagePreloader, \* nodes.imagePreloader.style: backgroundImage
  caption,        \* nodes.caption.innerHTML
  elements,       \* the media elements fillImage has made, in creation order
  lastOp,         \* history: the last call or callback, with its argument
  tunePair        \* history: an applyTune(n, true); applyTune(n, false) pair

vars == <<wrapper, imageContainer, fileButton, imageEl, imagePreloader, caption, elements, lastOp, tunePair>>

\* ------------------------------------------------------------ DOM helpers

\* Variant of classListToggle that flips the token whatever force says.
classListToggleNoForce(classList, token, force) ==
  IF token \in classList THEN classList \ {token} ELSE classList \cup {token}

\* classList.toggle(token, force): add when force, remove otherwise.
classListToggle(classList, token, force) ==
  IF force THEN classList \cup {token} ELSE classList \ {token}

\* parent.removeChild(node)
removeChild(children, node) == SelectSeq(children, LAMBDA n : n # node)

\* parent.appendChild(node): a node already in the tree is moved, not copied.
appendChild(children, node) == Append(removeChild(children, node), node)

\* The media elements among the children of the image container.
MediaIn(children) == {children[i] : i \in 1..Len(children)} \ {PreloaderNode}

\* Variant of EndsWithMp4 with the dot left unescaped: /.mp4$/.test(url)
EndsWithMp4AnyChar(url) ==
  /\ Len(url) >= 4
  /\ SubSeq(url, Len(url) - 2, Len(url)) = <<"m", "p", "4">>

\* /\.mp4$/.test(url)
EndsWithMp4(url) ==
  /\ Len(url) >= 4
  /\ SubSeq(url, Len(url) - 3, Len(url)) = <<".", "m", "p", "4">>

\* ------------------------------------------------------------ toggleStatus

RECURSIVE toggleStatusFrom(_, _, _)
\* The loop of toggleStatus from the i-th UiState member on.
toggleStatusFrom(classList, status, i) ==
  IF i > Len(UiState) THEN classList
  ELSE toggleStatusFrom(classListToggle(classList, Modifier(UiState[i]), status = UiState[i]),
                        status, i + 1)

\* Variant of toggleStatus that adds the new modifier and removes no other.
toggleStatusAddOnly(classList, status) == classList \cup {Modifier(status)}

\* toggleStatus(status), as the class list it leaves on the wrapper.
toggleStatus(classList, status) == toggleStatusFrom(classList, status, 1)

\* The UiState values whose modifier is on the class list.
ActiveStates(classList) == {s \in UiStateValues : Modifier(s) \in classList}

\* ------------------------------------------------------------ constructor

Init ==
  /\ wrapper = {CSS.baseClass, CSS.wrapper}
  /\ imageContainer = <<PreloaderNode>>
  /\ fileButton = [display |-> "", pointerEvents |-> ""]
  /\ imageEl = Undefined
  /\ imagePreloader = [backgroundImage |-> ""]
  /\ caption = ""
  /\ elements = <<>>
  /\ lastOp = [op |-> "constructor", arg |-> "", status |-> FALSE]
  /\ tunePair = [name |-> "", stage |-> 0, base |-> {}]

\* --------------------------------------------------------------- handlers

\* Variant of applyTune that drops the force argument of classList.toggle.
applyTuneNoForce(tuneName, status) ==
  /\ wrapper' = classListToggleNoForce(wrapper, Modifier(tuneName), status)
  /\ UNCHANGED <<imageContainer, fileButton, imageEl, imagePreloader, caption, elements>>

\* Variant of applyTune that toggles the modifier through the status classes.
applyTuneResetsStatus(tuneName, status) ==
  /\ wrapper' = classListToggle(toggleStatus(wrapper, UiStateEmpty), Modifier(tuneName), status)
  /\ UNCHANGED <<imageContainer, fileButton, imageEl, imagePreloader, caption, elements>>

applyTune(tuneName, status) ==
  /\ wrapper' = classListToggle(wrapper, Modifier(tuneName), status)
  /\ UNCHANGED <<imageContainer, fileButton, imageEl, imagePreloader, caption, elements>>

\* The element fillImage makes for url: tag, attributes and the event awaited.
makeMediaEl(url) ==
  LET tag == IF EndsWithMp4(url) THEN "VIDEO" ELSE "IMG" IN
    [tag |-> tag,
     className |-> CSS.imageEl,
     src |-> url,
     attrs |-> IF tag = "VIDEO" THEN {"autoplay", "loop", "muted", "playsinline"} ELSE {},
     eventName |-> IF tag = "VIDEO" THEN "loadeddata" ELSE "load",
     display |-> "",
     fired |-> FALSE]

\* Variant of fillImage that shows the Uploading state while the media loads.
fillImageUploading(url) ==
  /\ Len(elements) < MaxElems
  /\ elements' = Append(elements, makeMediaEl(url))
  /\ fileButton' = [display |-> "none", pointerEvents |-> "none"]
  /\ wrapper' = toggleStatus(wrapper, UiStateUploading)
  /\ UNCHANGED <<imageContainer, imageEl, imagePreloader, caption>>

\* Variant of fillImage that marks the wrapper Filled before the media loads.
fillImageMarksFilled(url) ==
  /\ Len(elements) < MaxElems
  /\ elements' = Append(elements, makeMediaEl(url))
  /\ fileButton' = [display |-> "none", pointerEvents |-> "none"]
  /\ wrapper' = toggleStatus(wrapper, UiStateFilled)
  /\ UNCHANGED <<imageContainer, imageEl, imagePreloader, caption>>

\* Variant of fillImage that attaches the new element before it has loaded.
fillImageEager(url) ==
  /\ Len(elements) < MaxElems
  /\ elements' = Append(elements, makeMediaEl(url))
  /\ fileButton' = [display |-> "none", pointerEvents |-> "none"]
  /\ imageContainer' = appendChild(imageContainer, Len(elements) + 1)
  /\ UNCHANGED <<wrapper, imageEl, imagePreloader, caption>>

fillImage(url) ==
  /\ Len(elements) < MaxElems
  /\ elements' = Append(elements, makeMediaEl(url))
  /\ fileButton' = [display |-> "none", pointerEvents |-> "none"]
  /\ UNCHANGED <<wrapper, imageContainer, imageEl, imagePreloader, caption>>

\* Variant of noFile that misses the empty mapping.
noFileAbsentOnly(toolData) == ~toolData.fileDefined

\* toolData.file === undefined || Object.keys(toolData.file).length === 0
noFile(toolData) == ~toolData.fileDefined \/ Cardinality(toolData.fileKeys) = 0

render(toolData) ==
  IF noFile(toolData)
  THEN /\ wrapper' = toggleStatus(wrapper, UiStateEmpty)
       /\ UNCHANGED <<imageContainer, fileButton, imageEl, imagePreloader, caption, elements>>
  ELSE fillImage(toolData.url)

\* Variant of hidePreloader that also brings the file button back.
hidePreloaderShowsButton ==
  /\ imagePreloader' = [imagePreloader EXCEPT !.backgroundImage = ""]
  /\ wrapper' = toggleStatus(wrapper, UiStateEmpty)
  /\ fileButton' = [display |-> "flex", pointerEvents |-> "auto"]
  /\ UNCHANGED <<imageContainer, imageEl, caption, elements>>

hidePreloader ==
  /\ imagePreloader' = [imagePreloader EXCEPT !.backgroundImage = ""]
  /\ wrapper' = toggleStatus(wrapper, UiStateEmpty)
  /\ UNCHANGED <<imageContainer, fileButton, imageEl, caption, elements>>

fillCaption(text) ==
  /\ caption' = text
  /\ UNCHANGED <<wrapper, imageContainer, fileButton, imageEl, imagePreloader, elements>>

\* Variant of clearImageButton without the `if (imageElement)` guard.
clearImageButtonUnguarded(imageElement, button) ==
  [display |-> "flex", pointerEvents |-> "auto"]

\* The file button after clearImage, given the tracked element.
clearImageButton(imageElement, button) ==
  IF imageElement # Undefined
  THEN [display |-> "flex", pointerEvents |-> "auto"]
  ELSE button

\* Variant of clearImage that detaches the element instead of blanking it.
clearImageDetach ==
  /\ imageContainer' = IF imageEl # Undefined THEN removeChild(imageContainer, imageEl)
                       ELSE imageContainer
  /\ imageEl' = Undefined
  /\ fileButton' = clearImageButton(imageEl, fileButton)
  /\ UNCHANGED <<wrapper, imagePreloader, caption, elements>>

\* Variant of clearImage that also puts the wrapper back in the Empty state.
clearImageResetsStatus ==
  /\ elements' = IF imageEl # Undefined
                 THEN [elements EXCEPT ![imageEl].src = <<>>, ![imageEl].display = "none"]
                 ELSE elements
  /\ fileButton' = clearImageButton(imageEl, fileButton)
  /\ wrapper' = toggleStatus(wrapper, UiStateEmpty)
  /\ UNCHANGED <<imageContainer, imageEl, imagePreloader, caption>>

clearImage ==
  /\ elements' = IF imageEl # Undefined
                 THEN [elements EXCEPT ![imageEl].src = <<>>, ![imageEl].display = "none"]
                 ELSE elements
  /\ fileButton' = clearImageButton(imageEl, fileButton)
  /\ UNCHANGED <<wrapper, imageContainer, imageEl, imagePreloader, caption>>

\* Variant of listenerSwap that never removes the previous element.
listenerSwapKeepsOld(children, tracked, e) == appendChild(children, e)

\* The image container after the listener of element e has swapped it in.
listenerSwap(children, tracked, e) ==
  appendChild(IF tracked # Undefined THEN removeChild(children, tracked) ELSE children, e)

\* Variant of listener with a sequence guard: only the element of the most
\* recent request is swapped in, an older one is dropped.
listenerLatestOnly(e) ==
  /\ e \in 1..Len(elements)
  /\ ~elements[e].fired
  /\ elements' = [elements EXCEPT ![e].fired = TRUE]
  /\ IF e = Len(elements)
     THEN /\ imageContainer' = listenerSwap(imageContainer, imageEl, e)
          /\ imageEl' = e
          /\ wrapper' = toggleStatus(wrapper, UiStateFilled)
          /\ imagePreloader' = [imagePreloader EXCEPT !.backgroundImage = ""]
     ELSE UNCHANGED <<imageContainer, imageEl, wrapper, imagePreloader>>
  /\ UNCHANGED <<fileButton, caption>>

\* The readiness listener fillImage registered on element e runs.
listener(e) ==
  /\ e \in 1..Len(elements)
  /\ ~elements[e].fired
  /\ elements' = [elements EXCEPT ![e].fired = TRUE]
  /\ imageContainer' = listenerSwap(imageContainer, imageEl, e)
  /\ imageEl' = e
  /\ wrapper' = toggleStatus(wrapper, UiStateFilled)
  /\ imagePreloader' = [imagePreloader EXCEPT !.backgroundImage = ""]
  /\ UNCHANGED <<fileButton, caption>>

\* The listener of element e runs again: addEventListener registers it without
\* {once: true}, so it stays registered after its first run.
listenerAgain(e) ==
  /\ e \in 1..Len(elements)
  /\ elements[e].fired
  /\ imageContainer' = listenerSwap(imageContainer, imageEl, e)
  /\ imageEl' = e
  /\ wrapper' = toggleStatus(wrapper, UiStateFilled)
  /\ imagePreloader' = [imagePreloader EXCEPT !.backgroundImage = ""]
  /\ UNCHANGED <<fileButton, caption, elements>>

\* ---------------------------------------------------------------- history

\* Records the call just made; tunePair follows an applyTune(n, true) and the
\* applyTune(n, false) right after it, with the class list before the pair.
Record(op, arg, status) ==
  /\ lastOp' = [op |-> op, arg |-> arg, status |-> status]
  /\ tunePair' =
       IF op = "applyTune" /\ status
       THEN [name |-> arg, stage |-> 1, base |-> wrapper]
       ELSE IF op = "applyTune" /\ tunePair.stage = 1 /\ tunePair.name = arg
       THEN [name |-> arg, stage |-> 2, base |-> tunePair.base]
       ELSE [name |-> "", stage |-> 0, base |-> {}]

\* ------------------------------------------------------------------- next

CallApplyTune == \E n \in TuneNames, s \in BOOLEAN : applyTune(n, s) /\ Record("applyTune", n, s)

CallRender == \E d \in ToolDatas : render(d) /\ Record("render", d.kind, FALSE)

CallHidePreloader == hidePreloader /\ Record("hidePreloader", "", FALSE)

CallFillImage == \E u \in Urls : fillImage(u) /\ Record("fillImage", "", FALSE)

CallFillCaption == \E t \in CaptionTexts : fillCaption(t) /\ Record("fillCaption", "", FALSE)

CallClearImage == clearImage /\ Record("clearImage", "", FALSE)

Readiness == \E e \in 1..MaxElems : listener(e) /\ Record("listener", "", FALSE)

Next ==
  \/ CallApplyTune
  \/ CallRender
  \/ CallHidePreloader
  \/ CallFillImage
  \/ CallFillCaption
  \/ CallClearImage
  \/ Readiness

Spec == Init /\ [][Next]_vars

\* applyTune with the tune names that are not UiState values.
CallApplyOwnTune ==
  \E n \in TuneNames \ UiStateValues, s \in BOOLEAN : applyTune(n, s) /\ Record("applyTune", n, s)

NextOwnTunes ==
  \/ CallApplyOwnTune
  \/ CallRender
  \/ CallHidePreloader
  \/ CallFillImage
  \/ CallFillCaption
  \/ CallClearImage
  \/ Readiness

\* The widget when no tune is named like a UiState value.
SpecOwnTunes == Init /\ [][NextOwnTunes]_vars

\* The readiness event reaches an element a second time.
Redelivery == \E e \in 1..MaxElems : listenerAgain(e) /\ Record("listenerAgain", "", FALSE)

NextRedeliver ==
  \/ NextOwnTunes
  \/ Redelivery

\* The widget when a readiness event may be dispatched to an element more
\* than once (and no tune is named like a UiState value).
SpecRedeliver == Init /\ [][NextRedeliver]_vars

\* ------------------------------------------------------------- vocabulary

\* The select-file button is hidden and takes no pointer events.
Hidden(button) == button.display = "none" /\ button.pointerEvents = "none"

\* The select-file button is visible and interactive, as clearImage leaves it.
Restored(button) == button.display = "flex" /\ button.pointerEvents = "auto"

\* A media element is attached to the image container and not hidden.
MediaShown ==
  /\ imageEl # Undefined
  /\ imageEl \in MediaIn(imageContainer)
  /\ elements[imageEl].display # "none"

\* The readiness listener of every element made so far has run.
AllFired == \A i \in 1..Len(elements) : elements[i].fired

\* The call recorded in op goes through toggleStatus.
Toggles(op) ==
  \/ op.op \in {"hidePreloader", "listener"}
  \/ op.op = "render" /\ op.arg \in {"absent", "empty"}

\* The call recorded in op is applyTune with a tune named like a UiState value.
ClashingTune(op) == op.op = "applyTune" /\ op.arg \in UiStateValues

\* -------------------------------------------------------------------- C1

\* C1: in every reachable state the image container holds at most one media
\* element, whatever calls and readiness callbacks ran and in whatever order.
C1_AtMostOneMedia == Cardinality(MediaIn(imageContainer)) <= 1

\* A second readiness callback has swapped its element in for the first one.
C1_Witness ==
  /\ lastOp.op = "listener"
  /\ Len(elements) = 2 /\ AllFired
  /\ Cardinality(MediaIn(imageContainer)) = 1

\* -------------------------------------------------------------------- C2

\* C2 as claimed: in every reachable state, from construction onward,
\* exactly one of the three UiState modifiers is on the wrapper.
C2_ExactlyOneAlways == Cardinality(ActiveStates(wrapper)) = 1

\* C2 as amended: no UiState modifier is on the wrapper after construction;
\* a render without a file, hidePreloader and a readiness callback each leave
\* exactly one; every other call, applyTune with a tune named like a state
\* excepted, leaves the active modifiers as they were.
C2_OneOnceToggled ==
  /\ ActiveStates(wrapper) = {}
  /\ [][~ClashingTune(lastOp') =>
          IF Toggles(lastOp')
          THEN Cardinality(ActiveStates(wrapper')) = 1
          ELSE ActiveStates(wrapper') = ActiveStates(wrapper)]_vars

\* hidePreloader after a readiness callback: Empty replaced Filled.
C2_Witness ==
  /\ lastOp.op = "hidePreloader"
  /\ imageEl # Undefined
  /\ ActiveStates(wrapper) = {UiStateEmpty}

\* -------------------------------------------------------------------- C3

\* C3: whenever a media element is attached and shown the select-file button
\* is hidden and non-interactive, and so it is right after every readiness
\* callback, whatever ran between the request and the callback.
C3_ShownMeansHidden ==
  /\ MediaShown => Hidden(fileButton)
  /\ lastOp.op = "listener" => Hidden(fileButton)

\* -------------------------------------------------------------------- C4

\* C4: once every pending readiness signal has fired, the attached media
\* element is the one of the most recent fillImage request.
C4_LatestRequestWins ==
  (Len(elements) >= 1 /\ AllFired) =>
    /\ imageEl = Len(elements)
    /\ MediaIn(imageContainer) = {Len(elements)}

\* -------------------------------------------------------------------- C5

\* C5 as claimed: after render with no file descriptor, from whatever state,
\* Empty is the active modifier and no media element is attached.
C5_RenderEmptyNoMedia ==
  (lastOp.op = "render" /\ lastOp.arg \in {"absent", "empty"}) =>
    /\ ActiveStates(wrapper) = {UiStateEmpty}
    /\ MediaIn(imageContainer) = {}

\* C5 as amended: render with no file descriptor leaves Empty the only active
\* modifier and leaves the image container, the tracked element, the elements
\* and the file button as they were: no media is attached after it exactly
\* when none was before.
C5_RenderEmptyKeepsMedia ==
  [][(lastOp'.op = "render" /\ lastOp'.arg \in {"absent", "empty"}) =>
       /\ ActiveStates(wrapper') = {UiStateEmpty}
       /\ UNCHANGED <<imageContainer, imageEl, elements, fileButton>>]_vars

\* render({file: {}}) on a widget that shows a loaded element.
C5_Witness ==
  /\ lastOp.op = "render" /\ lastOp.arg = "empty"
  /\ ActiveStates(wrapper) = {UiStateEmpty}
  /\ imageEl # Undefined
  /\ MediaIn(imageContainer) = {imageEl}

\* -------------------------------------------------------------------- C6

\* C6: with no media element attached and the button hidden by fillImage,
\* every step other than a readiness callback (hidePreloader, clearImage,
\* render, applyTune, fillCaption, a further fillImage) leaves no media
\* attached and the button hidden and non-interactive; and fillImage on a
\* widget with no media leaves it in that state.
C6_StuckUntilReady ==
  /\ [][(lastOp'.op = "fillImage" /\ imageEl = Undefined) =>
          (imageEl' = Undefined /\ MediaIn(imageContainer') = {} /\ Hidden(fileButton'))]_vars
  /\ [][(imageEl = Undefined /\ Hidden(fileButton) /\ lastOp'.op # "listener") =>
          (imageEl' = Undefined /\ MediaIn(imageContainer') = {} /\ Hidden(fileButton'))]_vars

\* clearImage ran while the only request was pending, and restored nothing.
C6_Witness ==
  /\ lastOp.op = "clearImage"
  /\ Len(elements) >= 1 /\ \A i \in 1..Len(elements) : ~elements[i].fired
  /\ imageEl = Undefined /\ MediaIn(imageContainer) = {}
  /\ Hidden(fileButton)

\* -------------------------------------------------------------------- C7

\* C7: clearImage called while a media element is tracked blanks its source,
\* hides it and makes the file button visible and interactive, while the
\* image container keeps its children and the element stays the tracked one.
C7_ClearKeepsNode ==
  [][(lastOp'.op = "clearImage" /\ imageEl # Undefined) =>
       /\ elements'[imageEl].src = <<>>
       /\ elements'[imageEl].display = "none"
       /\ Restored(fileButton')
       /\ imageContainer' = imageContainer
       /\ imageEl \in MediaIn(imageContainer')
       /\ imageEl' = imageEl]_vars

\* clearImage ran on an attached element.
C7_Witness ==
  /\ lastOp.op = "clearImage"
  /\ imageEl # Undefined
  /\ imageEl \in MediaIn(imageContainer)
  /\ elements[imageEl].src = <<>>
  /\ Restored(fileButton)

\* -------------------------------------------------------------------- C8

\* C8 as claimed: applyTune(name, true) then applyTune(name, false) leaves
\* the wrapper's classes equal to what they were before the pair.
C8_PairRestoresClasses == tunePair.stage = 2 => wrapper = tunePair.base

\* C8 as amended: the pair leaves the wrapper's classes equal to what they
\* were before it with the tune's modifier removed, so equal to what they
\* were exactly when the modifier was not on the wrapper before the pair.
C8_PairRemovesModifier ==
  tunePair.stage = 2 =>
    /\ wrapper = tunePair.base \ {Modifier(tunePair.name)}
    /\ (wrapper = tunePair.base) <=> (Modifier(tunePair.name) \notin tunePair.base)

\* The pair ran on a wrapper that did not carry the tune's modifier.
C8_Witness ==
  /\ tunePair.stage = 2
  /\ Modifier(tunePair.name) \notin tunePair.base
  /\ wrapper = tunePair.base

\* -------------------------------------------------------------------- C9

\* C9: hidePreloader leaves the preloader without a background image and
\* Empty the only active modifier, and leaves the image container, the
\* tracked element, every element's source and visibility and the file
\* button as they were.
C9_HidePreloaderFrame ==
  [][lastOp'.op = "hidePreloader" =>
       /\ imagePreloader'.backgroundImage = ""
       /\ ActiveStates(wrapper') = {UiStateEmpty}
       /\ UNCHANGED <<imageContainer, imageEl, elements, fileButton>>]_vars

\* hidePreloader ran while a loaded element was shown.
C9_Witness ==
  /\ lastOp.op = "hidePreloader"
  /\ MediaShown
  /\ Hidden(fileButton)
  /\ ActiveStates(wrapper) = {UiStateEmpty}

\* ------------------------------------------------------------------- C10

\* C10 as claimed: for every tune name applyTune leaves the active UiState
\* modifiers, the media and the file button as they were.
C10_TuneKeepsStatus ==
  [][lastOp'.op = "applyTune" =>
       /\ ActiveStates(wrapper') = ActiveStates(wrapper)
       /\ UNCHANGED <<imageContainer, imageEl, elements, fileButton>>]_vars

\* C10 as amended: applyTune changes nothing but the wrapper class named
\* after the tune, which is on the wrapper afterwards exactly when enabled;
\* for every tune name that is not a UiState value it leaves the active
\* UiState modifiers as they were.
C10_TuneTouchesOwnClass ==
  [][lastOp'.op = "applyTune" =>
       /\ wrapper' \ {Modifier(lastOp'.arg)} = wrapper \ {Modifier(lastOp'.arg)}
       /\ (Modifier(lastOp'.arg) \in wrapper') <=> lastOp'.status
       /\ lastOp'.arg \notin UiStateValues => ActiveStates(wrapper') = ActiveStates(wrapper)
       /\ UNCHANGED <<imageContainer, imageEl, elements, fileButton>>]_vars

\* A tune not named like a state was enabled on a Filled wrapper.
C10_Witness ==
  /\ lastOp.op = "applyTune" /\ lastOp.status
  /\ lastOp.arg \notin UiStateValues
  /\ Modifier(lastOp.arg) \in wrapper
  /\ ActiveStates(wrapper) = {UiStateFilled}
  /\ imageEl # Undefined

\* ------------------------------------------------------------------- C11

\* The URL is some text followed by ".mp4".
HasMp4Suffix(url) ==
  \E k \in 0..Len(url) : url = SubSeq(url, 1, k) \o <<".", "m", "p", "4">>

\* C11: every element fillImage makes (directly or through render) is, for a
\* URL ending in ".mp4", a video with autoplay, loop, muted and playsinline
\* that awaits `loadeddata`, and for every other URL an image that awaits
\* `load`; its source is the URL.
C11_TagFollowsSuffix ==
  [][Len(elements') = Len(elements) + 1 =>
       LET el == elements'[Len(elements')] IN
         /\ lastOp'.op \in {"fillImage", "render"}
         /\ IF HasMp4Suffix(el.src)
            THEN /\ el.tag = "VIDEO"
                 /\ el.attrs = {"autoplay", "loop", "muted", "playsinline"}
                 /\ el.eventName = "loadeddata"
            ELSE /\ el.tag = "IMG"
                 /\ el.attrs = {}
                 /\ el.eventName = "load"]_vars

\* A video was made for "b.mp4" and an image for "cmp4", which has no dot.
C11_Witness ==
  /\ Len(elements) = 2
  /\ elements[1].src = <<"b", ".", "m", "p", "4">> /\ elements[1].tag = "VIDEO"
  /\ elements[1].eventName = "loadeddata"
  /\ elements[2].src = <<"c", "m", "p", "4">> /\ elements[2].tag = "IMG"
  /\ elements[2].eventName = "load"

\* ------------------------------------------------------------------- C12

\* C12: a further fillImage leaves the earlier elements and their pending
\* listeners as they were; every readiness callback swaps in its own element,
\* whichever request it belongs to; no other step changes what is attached.
\* So the element attached is the one whose callback ran last.
C12_LastCallbackWins ==
  /\ [][Len(elements') = Len(elements) + 1 =>
          SubSeq(elements', 1, Len(elements)) = elements]_vars
  /\ [][lastOp'.op = "listener" =>
          \E e \in 1..Len(elements) :
            /\ ~elements[e].fired /\ elements'[e].fired
            /\ imageEl' = e
            /\ MediaIn(imageContainer') = {e}]_vars
  /\ [][lastOp'.op # "listener" => UNCHANGED <<imageEl, imageContainer>>]_vars

\* Two requests, the callback of the older one ran last and is attached.
C12_Witness ==
  /\ lastOp.op = "listener"
  /\ Len(elements) = 2 /\ AllFired
  /\ imageEl = 1
  /\ MediaIn(imageContainer) = {1}

\* ------------------------------------------------------------------- C13

\* C13: one readiness callback is one step, after which the element tracked
\* before is out of the image container, the loaded element is attached and
\* tracked, Filled is the only active UiState modifier and the preloader has
\* no background image.
C13_CallbackSwapsAtOnce ==
  [][lastOp'.op = "listener" =>
       /\ (imageEl # Undefined /\ imageEl # imageEl') => imageEl \notin MediaIn(imageContainer')
       /\ imageEl' # Undefined
       /\ ~elements[imageEl'].fired /\ elements'[imageEl'].fired
       /\ imageEl' \in MediaIn(imageContainer')
       /\ ActiveStates(wrapper') = {UiStateFilled}
       /\ imagePreloader'.backgroundImage = ""]_vars

\* The second callback replaced the first element on a wrapper now Filled.
C13_Witness ==
  /\ lastOp.op = "listener"
  /\ Len(elements) = 2 /\ AllFired
  /\ imageEl = 2
  /\ imageContainer = <<PreloaderNode, 2>>
  /\ ActiveStates(wrapper) = {UiStateFilled}

\* ------------------------------------------------------------------- C14

\* C14: in every reachable state the Uploading modifier is not on the
\* wrapper (no tune is named "uploading" here).
C14_NeverUploading == Modifier(UiStateUploading) \notin wrapper

\* A widget rendered with a file descriptor has become Filled.
C14_Witness ==
  /\ lastOp.op = "listener"
  /\ Len(elements) = 1 /\ AllFired
  /\ ActiveStates(wrapper) = {UiStateFilled}
  /\ Modifier(UiStateUploading) \notin wrapper

\* ------------------------------------------------------------------- C15

\* C15: a readiness signal delivered a second time to an element changes
\* neither the attached media element nor the wrapper's classes.
C15_SecondDeliveryNoOp ==
  [][lastOp'.op = "listenerAgain" => UNCHANGED <<imageEl, imageContainer, wrapper>>]_vars

\* ------------------------------------------------------------------- C16

\* C16: the fillImage call (direct or through render with a file) hides and
\* disables the file button, makes one new element that is not in the image
\* container, and leaves the container, the tracked element, the wrapper's
\* classes, the preloader and the earlier elements as they were.
C16_FillImageOnlyHides ==
  [][(lastOp'.op = "fillImage" \/ (lastOp'.op = "render" /\ lastOp'.arg = "file")) =>
       /\ Hidden(fileButton')
       /\ Len(elements') = Len(elements) + 1
       /\ SubSeq(elements', 1, Len(elements)) = elements
       /\ Len(elements') \notin MediaIn(imageContainer')
       /\ UNCHANGED <<imageContainer, imageEl, wrapper, imagePreloader>>]_vars

\* fillImage ran while an element was shown: the new one is still off-tree.
C16_Witness ==
  /\ lastOp.op = "fillImage"
  /\ Len(elements) = 2 /\ ~elements[2].fired
  /\ imageEl = 1
  /\ MediaIn(imageContainer) = {1}
  /\ Hidden(fileButton)

\* ------------------------------------------------------------------- C17

\* C17: in every reachable state nodes.imageEl is defined exactly when a
\* media element is in the image container, and is then that element; and
\* no step takes a container with a media element to one without.
C17_TrackedIsAttached ==
  /\ [](/\ (imageEl = Undefined) <=> (MediaIn(imageContainer) = {})
        /\ imageEl # Undefined => MediaIn(imageContainer) = {imageEl})
  /\ [][MediaIn(imageContainer) # {} => MediaIn(imageContainer') # {}]_vars

\* A cleared element is still tracked and attached after a further request.
C17_Witness ==
  /\ imageEl = 1
  /\ elements[1].display = "none"
  /\ MediaIn(imageContainer) = {1}
  /\ Len(elements) = 2 /\ ~elements[2].fired

\* ------------------------------------------------------------------- C18

\* C18: when no tune is named like a UiState value, the Filled modifier is on
\* the wrapper only if a media element is in the image container.
C18_FilledOnlyWithMedia ==
  Modifier(UiStateFilled) \in wrapper => MediaIn(imageContainer) # {}

\* Filled on a wrapper whose media element is attached, after a tune call.
C18_Witness ==
  /\ lastOp.op = "applyTune" /\ ~lastOp.status
  /\ Modifier(UiStateFilled) \in wrapper
  /\ MediaIn(imageContainer) = {imageEl}

\* ------------------------------------------------------------------- C19

\* C19: clearImage leaves the wrapper's classes as they were, and with no
\* tracked element it leaves everything as it was, the file button included.
C19_ClearKeepsStatus ==
  [][lastOp'.op = "clearImage" =>
       /\ wrapper' = wrapper
       /\ imageEl = Undefined =>
            UNCHANGED <<wrapper, imageContainer, fileButton, imageEl, imagePreloader, caption, elements>>]_vars

\* clearImage ran on a loaded element and the wrapper is still Filled.
C19_Witness ==
  /\ lastOp.op = "clearImage"
  /\ imageEl # Undefined
  /\ elements[imageEl].display = "none"
  /\ Restored(fileButton)
  /\ ActiveStates(wrapper) = {UiStateFilled}

====
